---- MODULE Spec2Model ----
(***************************************************************************)
(* Model of tools/bench_analyze.py: the BENCH line parser, the strong and  *)
(* weak scaling metric passes, the CSV writer and the chart sink, driven   *)
(* by main().                                                              *)
(*                                                                         *)
(* Floats are modelled as exact reduced fractions <<num, den>>; text       *)
(* fields of a line are sequences of one-character strings.                *)
(***************************************************************************)
EXTENDS Integers, Sequences, FiniteSets, TLC

VARIABLES pc, rows, outdirMade, metrics, csv, plt, charts, exc

vars == <<pc, rows, outdirMade, metrics, csv, plt, charts, exc>>

(* Largest number of records one input file yields in the model. *)
MaxRows == 3

---------------------------------------------------------------------------
(* Exact arithmetic standing for Python floats.                            *)

RECURSIVE Gcd(_, _)
Gcd(a, b) == IF b = 0 THEN a ELSE Gcd(b, a % b)

Frac(n, d) == LET g == Gcd(n, d) IN <<n \div g, d \div g>>

FZero == <<0, 1>>
FOne == <<1, 1>>

FPos(a) == a[1] > 0
FLess(a, b) == a[1] * b[2] < b[1] * a[2]
\* a / b for b # 0
FDiv(a, b) == Frac(a[1] * b[2], a[2] * b[1])
\* a / p for an integer p > 0
FDivInt(a, p) == Frac(a[1], a[2] * p)

---------------------------------------------------------------------------
(* Text of a line.  A line is a record of the tokens that strip() and the  *)
(* whitespace runs of BENCH_RE delimit: a leading tag and six key=value    *)
(* fields in the fixed order of the grammar.                               *)

Digits == {"0", "1", "2", "3", "4", "5", "6", "7", "8", "9"}

DigitVal(c) ==
    CASE c = "0" -> 0 [] c = "1" -> 1 [] c = "2" -> 2 [] c = "3" -> 3
      [] c = "4" -> 4 [] c = "5" -> 5 [] c = "6" -> 6 [] c = "7" -> 7
      [] c = "8" -> 8 [] c = "9" -> 9

\* \d+
MatchesUint(text) == Len(text) > 0 /\ \A i \in 1..Len(text) : text[i] \in Digits
\* [0-9.]+
MatchesTime(text) ==
    Len(text) > 0 /\ \A i \in 1..Len(text) : text[i] \in Digits \cup {"."}
\* \S+
MatchesToken(tok) == tok # ""

BENCH_RE(line) ==
    /\ line.tag = "BENCH"
    /\ MatchesToken(line.version)
    /\ MatchesUint(line.n_bats)
    /\ MatchesUint(line.iters)
    /\ MatchesUint(line.procs)
    /\ MatchesUint(line.threads)
    /\ MatchesTime(line.time_s)

\* int(text) on a text of decimal digits
RECURSIVE ParseInt(_)
ParseInt(text) ==
    IF Len(text) = 0 THEN 0
    ELSE 10 * ParseInt(SubSeq(text, 1, Len(text) - 1)) + DigitVal(text[Len(text)])

RECURSIVE Pow10(_)
Pow10(k) == IF k = 0 THEN 1 ELSE 10 * Pow10(k - 1)

DotCount(text) == Cardinality({i \in 1..Len(text) : text[i] = "."})
DotPos(text) == CHOOSE i \in 1..Len(text) : text[i] = "."

\* float(text) accepts a text of digits and dots only when it holds at most
\* one dot and at least one digit; otherwise it raises ValueError.
FloatAccepts(text) ==
    /\ DotCount(text) <= 1
    /\ \E i \in 1..Len(text) : text[i] \in Digits

ParseFloat(text) ==
    IF DotCount(text) = 0 THEN Frac(ParseInt(text), 1)
    ELSE LET d == DotPos(text)
             whole == SubSeq(text, 1, d - 1)
             frac == SubSeq(text, d + 1, Len(text))
         IN Frac(ParseInt(whole \o frac), Pow10(Len(frac)))

BenchRow(line) ==
    [version |-> line.version,
     n_bats |-> ParseInt(line.n_bats),
     iters |-> ParseInt(line.iters),
     procs |-> ParseInt(line.procs),
     threads |-> ParseInt(line.threads),
     time_s |-> ParseFloat(line.time_s)]

\* One pass of the loop body of parse_lines: the outcome for one line.
ParseLineOutcome(line) ==
    IF ~BENCH_RE(line) THEN "skip"
    ELSE IF ~FloatAccepts(line.time_s) THEN "ValueError"
    ELSE "row"

\* Mutation of P: the thread count taken for an mpi record too.
P_ThreadsForMpi(r) ==
    IF r.version = "openmp" \/ r.version = "mpi" THEN r.threads ELSE 1

\* BenchRow.p
P(r) ==
    IF r.version = "openmp" THEN r.threads
    ELSE IF r.version = "mpi" THEN r.procs
    ELSE 1

---------------------------------------------------------------------------
(* Metrics engine.                                                         *)

\* Mutation of MinTime: the first repeat instead of the fastest.
MinTime_FirstRepeat(cands) == cands[1].time_s

\* min(r.time_s for r in candidates)
MinTime(cands) ==
    CHOOSE t \in {cands[i].time_s : i \in 1..Len(cands)} :
        \A j \in 1..Len(cands) : ~FLess(cands[j].time_s, t)

\* find_baseline: the minimum sequential time of the size, or SystemExit.
find_baseline(rs, n_bats, iters) ==
    LET candidates ==
            SelectSeq(rs, LAMBDA r : r.version = "sequential"
                                      /\ r.n_bats = n_bats /\ r.iters = iters)
    IN IF Len(candidates) = 0
       THEN [raised |-> "SystemExit", value |-> FZero]
       ELSE [raised |-> "", value |-> MinTime(candidates)]

\* Mutation of TryFindBaseline: the except clause misses SystemExit.
TryFindBaseline_Uncaught(rs, n_bats, iters) ==
    LET b == find_baseline(rs, n_bats, iters)
    IN [raised |-> b.raised, found |-> b.raised = "", value |-> b.value]

\* The try/except around find_baseline in _strong_metrics: SystemExit is
\* caught and the size gets no entry in baselines.
TryFindBaseline(rs, n_bats, iters) ==
    LET b == find_baseline(rs, n_bats, iters)
    IN IF b.raised = "SystemExit"
       THEN [raised |-> "", found |-> FALSE, value |-> FZero]
       ELSE [raised |-> b.raised, found |-> TRUE, value |-> b.value]

\* Mutation of Speedup: a zero elapsed time reported as unit speedup.
Speedup_ZeroAsOne(t_base, time_s) ==
    IF FPos(time_s) THEN FDiv(t_base, time_s) ELSE FOne

\* speedup = t1 / r.time_s if r.time_s > 0 else 0.0
Speedup(t_base, time_s) == IF FPos(time_s) THEN FDiv(t_base, time_s) ELSE FZero

\* eff = speedup / p if p > 0 else 0.0
StrongEfficiency(speedup, p) == IF p > 0 THEN FDivInt(speedup, p) ELSE FZero

\* weak_eff = weak_speedup
WeakEfficiency(speedup) == speedup

StrongMetric(r, t1) ==
    LET speedup == Speedup(t1, r.time_s)
    IN [mode |-> "strong", version |-> r.version, n_bats |-> r.n_bats,
        iters |-> r.iters, procs |-> r.procs, threads |-> r.threads,
        p |-> P(r), time_s |-> r.time_s, baseline_n_bats |-> r.n_bats,
        T_base_s |-> t1, speedup |-> speedup,
        efficiency |-> StrongEfficiency(speedup, P(r))]

\* _strong_metrics: [raised, out]; raised names an exception that escapes.
strong_metrics(rs) ==
    LET sizes == {<<rs[i].n_bats, rs[i].iters>> : i \in 1..Len(rs)}
        look == [s \in sizes |-> TryFindBaseline(rs, s[1], s[2])]
        escaped == {s \in sizes : look[s].raised # ""}
        baselines == {s \in sizes : look[s].found}
        kept == SelectSeq(rs, LAMBDA r : <<r.n_bats, r.iters>> \in baselines)
    IN IF escaped # {}
       THEN [raised |-> "SystemExit", out |-> <<>>]
       ELSE [raised |-> "",
             out |-> [i \in 1..Len(kept) |->
                        StrongMetric(kept[i], look[<<kept[i].n_bats, kept[i].iters>>].value)]]

\* Mutation of MinByNBats: the first candidate, whatever its size.
MinByNBats_First(s) == s[1]

\* min(seq, key=lambda r: r.n_bats): the first element of least n_bats.
MinByNBats(s) ==
    LET i == CHOOSE k \in 1..Len(s) :
                 /\ \A j \in 1..Len(s) : s[k].n_bats <= s[j].n_bats
                 /\ \A j \in 1..(k - 1) : s[j].n_bats > s[k].n_bats
    IN s[i]

NoRow ==
    [version |-> "", n_bats |-> 0, iters |-> 0, procs |-> 0, threads |-> 0,
     time_s |-> FZero]

\* _weak_baseline: [found, row]; found = FALSE stands for None.
weak_baseline(rs, iters, version) ==
    LET seq == SelectSeq(rs, LAMBDA r : r.iters = iters
                                         /\ r.version = "sequential" /\ P(r) = 1)
        same == SelectSeq(rs, LAMBDA r : r.iters = iters
                                          /\ r.version = version /\ P(r) = 1)
    IN IF Len(seq) > 0 THEN [found |-> TRUE, row |-> MinByNBats(seq)]
       ELSE IF Len(same) > 0 THEN [found |-> TRUE, row |-> MinByNBats(same)]
       ELSE [found |-> FALSE, row |-> NoRow]

WeakMetric(r, baseline) ==
    LET weak_speedup == Speedup(baseline.time_s, r.time_s)
    IN [mode |-> "weak", version |-> r.version, n_bats |-> r.n_bats,
        iters |-> r.iters, procs |-> r.procs, threads |-> r.threads,
        p |-> P(r), time_s |-> r.time_s, baseline_n_bats |-> baseline.n_bats,
        T_base_s |-> baseline.time_s, speedup |-> weak_speedup,
        efficiency |-> WeakEfficiency(weak_speedup)]

\* The entry appended for the baseline row itself.
BaselineMetric(baseline) ==
    [mode |-> "weak", version |-> baseline.version, n_bats |-> baseline.n_bats,
     iters |-> baseline.iters, procs |-> baseline.procs,
     threads |-> baseline.threads, p |-> 1, time_s |-> baseline.time_s,
     baseline_n_bats |-> baseline.n_bats, T_base_s |-> baseline.time_s,
     speedup |-> FOne, efficiency |-> FOne]

\* sorted() over the version tokens of the model's inputs.
VersionOrder == <<"hybrid", "mpi", "openmp", "sequential">>

SortedVersions(rs) ==
    SelectSeq(VersionOrder, LAMBDA v : \E i \in 1..Len(rs) : rs[i].version = v)

RECURSIVE SortedInts(_)
SortedInts(S) ==
    IF S = {} THEN <<>>
    ELSE LET m == CHOOSE x \in S : \A y \in S : x <= y
         IN <<m>> \o SortedInts(S \ {m})

\* The body of the inner loop of _weak_metrics for one (iters, version).
WeakPair(rs, iters, version) ==
    LET b == weak_baseline(rs, iters, version)
        candidates == SelectSeq(rs, LAMBDA r : r.iters = iters /\ r.version = version)
    IN IF version = "sequential" \/ ~b.found THEN <<>>
       ELSE [i \in 1..Len(candidates) |-> WeakMetric(candidates[i], b.row)]
            \o <<BaselineMetric(b.row)>>

RECURSIVE WeakVersions(_, _, _)
WeakVersions(rs, iters, versions) ==
    IF Len(versions) = 0 THEN <<>>
    ELSE WeakPair(rs, iters, Head(versions)) \o WeakVersions(rs, iters, Tail(versions))

RECURSIVE WeakIters(_, _)
WeakIters(rs, iters_seq) ==
    IF Len(iters_seq) = 0 THEN <<>>
    ELSE WeakVersions(rs, Head(iters_seq), SortedVersions(rs))
         \o WeakIters(rs, Tail(iters_seq))

MetricKey(m) == <<m.mode, m.version, m.n_bats, m.iters, m.procs, m.threads>>

\* Mutation of Dedupe: no deduplication at all.
Dedupe_None(out) == out

\* uniq[key] = m over out, then list(uniq.values()): a key keeps the place
\* of its first entry and the value of its last.
Dedupe(out) ==
    LET idx == [i \in 1..Len(out) |-> i]
        firsts == SelectSeq(idx, LAMBDA i :
                      \A j \in 1..(i - 1) : MetricKey(out[j]) # MetricKey(out[i]))
        LastOf(i) == CHOOSE j \in i..Len(out) :
                         /\ MetricKey(out[j]) = MetricKey(out[i])
                         /\ \A k \in (j + 1)..Len(out) : MetricKey(out[k]) # MetricKey(out[i])
    IN [k \in 1..Len(firsts) |-> out[LastOf(firsts[k])]]

weak_metrics(rs) ==
    Dedupe(WeakIters(rs, SortedInts({rs[i].iters : i \in 1..Len(rs)})))

\* compute_metrics: [raised, out]
compute_metrics(rs) ==
    LET strong == strong_metrics(rs)
    IN IF strong.raised # "" THEN [raised |-> strong.raised, out |-> <<>>]
       ELSE [raised |-> "", out |-> strong.out \o weak_metrics(rs)]

---------------------------------------------------------------------------
(* Reporter: the chart sink.                                               *)

GroupKey(m) == <<m.mode, m.version, m.n_bats, m.iters>>

\* sorted(ms, key=lambda x: int(x["p"])): a stable insertion sort.
RECURSIVE InsertByP(_, _)
InsertByP(sorted, m) ==
    IF Len(sorted) = 0 THEN <<m>>
    ELSE IF Head(sorted).p <= m.p THEN <<Head(sorted)>> \o InsertByP(Tail(sorted), m)
    ELSE <<m>> \o sorted

RECURSIVE SortByP(_)
SortByP(ms) ==
    IF Len(ms) = 0 THEN <<>>
    ELSE InsertByP(SortByP(SubSeq(ms, 1, Len(ms) - 1)), ms[Len(ms)])

ChartKinds == {"time", "speedup", "efficiency"}

\* plot_group: the series drawn and the three files saved for one group.
plot_group(mode, version, n_bats, iters, group) ==
    LET ms == SortByP(group)
    IN [mode |-> mode, version |-> version, n_bats |-> n_bats, iters |-> iters,
        ms |-> ms, t_base |-> ms[1].T_base_s,
        files |-> {<<version, mode, kind, n_bats, iters>> : kind \in ChartKinds}]

\* The keys of groups in the order setdefault first sees them.
GroupKeys(ms) ==
    LET idx == [i \in 1..Len(ms) |-> i]
        firsts == SelectSeq(idx, LAMBDA i :
                      \A j \in 1..(i - 1) : GroupKey(ms[j]) # GroupKey(ms[i]))
    IN [k \in 1..Len(firsts) |-> GroupKey(ms[firsts[k]])]

\* Whether the loop over groups renders the group of this key.
Rendered(key, group) ==
    /\ key[2] # "sequential"
    /\ Cardinality({group[i].p : i \in 1..Len(group)}) >= 1

\* try_plot with matplotlib importable: the groups rendered, in order.
try_plot(ms) ==
    LET keys == GroupKeys(ms)
        GroupOf(key) == SelectSeq(ms, LAMBDA m : GroupKey(m) = key)
        drawn == SelectSeq(keys, LAMBDA key : Rendered(key, GroupOf(key)))
    IN [k \in 1..Len(drawn) |->
          plot_group(drawn[k][1], drawn[k][2], drawn[k][3], drawn[k][4], GroupOf(drawn[k]))]

---------------------------------------------------------------------------
(* Input lines of the model.                                               *)

Line(version, n_bats, iters, procs, threads, time_s) ==
    [tag |-> "BENCH", version |-> version, n_bats |-> n_bats, iters |-> iters,
     procs |-> procs, threads |-> threads, time_s |-> time_s]

N10 == <<"1", "0">>
N20 == <<"2", "0">>
T0 == <<"0", ".", "0">>
T15 == <<"1", ".", "5">>
T3 == <<"3">>

GoodLines ==
    {Line("sequential", N10, <<"5">>, <<"1">>, <<"1">>, t) : t \in {T0, T15, T3}}
    \cup {Line("openmp", N10, <<"5">>, <<"1">>, <<"1">>, t) : t \in {T0, T15, T3}}
    \cup {Line("openmp", N20, <<"5">>, <<"1">>, <<"2">>, t) : t \in {T15, T3}}
    \cup {Line("sequential", N20, <<"5">>, <<"1">>, <<"1">>, T15),
          Line("openmp", N20, <<"5">>, <<"1">>, <<"1">>, T15),
          Line("openmp", N10, <<"5">>, <<"1">>, <<"2">>, T15),
          Line("openmp", N10, <<"5">>, <<"1">>, <<"0">>, T15),
          Line("mpi", N10, <<"5">>, <<"1">>, <<"2">>, T15),
          Line("mpi", N20, <<"5">>, <<"2">>, <<"1">>, T3),
          Line("hybrid", N10, <<"5">>, <<"2">>, <<"2">>, T15),
          Line("sequential", N10, <<"7">>, <<"1">>, <<"1">>, T15),
          Line("openmp", N10, <<"7">>, <<"1">>, <<"1">>, T3)}

BadLines ==
    {[Line("mpi", N10, <<"5">>, <<"1">>, <<"1">>, T3) EXCEPT !.tag = "INFO"],
     Line("mpi", <<"a", "b", "c">>, <<"5">>, <<"1">>, <<"1">>, T3),
     Line("mpi", N10, <<"5">>, <<"1">>, <<"1">>, <<"1", ".", "2", ".", "3">>),
     Line("mpi", N10, <<"5">>, <<"1">>, <<"1">>, <<".">>)}

InputLines == GoodLines \cup BadLines

---------------------------------------------------------------------------
(* main()                                                                  *)

NoCsv == [opened |-> FALSE, header |-> <<>>, body |-> <<>>]

CsvHeader ==
    <<"mode", "version", "n_bats", "iters", "procs", "threads", "p", "time_s",
      "baseline_n_bats", "T_base_s", "speedup", "efficiency">>

Init ==
    /\ pc = "makedirs"
    /\ rows = <<>>
    /\ outdirMade = FALSE
    /\ metrics = <<>>
    /\ csv = NoCsv
    /\ plt = "unprobed"
    /\ charts = <<>>
    /\ exc = ""

\* os.makedirs(args.outdir, exist_ok=True)
MakeDirs ==
    /\ pc = "makedirs"
    /\ outdirMade' = TRUE
    /\ pc' = "parse"
    /\ UNCHANGED <<rows, metrics, csv, plt, charts, exc>>

\* One pass of the loop of parse_lines over the next line of the file.
ParseLine(line) ==
    /\ pc = "parse"
    /\ LET outcome == ParseLineOutcome(line)
       IN CASE outcome = "skip" ->
                 UNCHANGED <<pc, rows, exc>>
            [] outcome = "row" ->
                 /\ Len(rows) < MaxRows
                 /\ rows' = Append(rows, BenchRow(line))
                 /\ UNCHANGED <<pc, exc>>
            [] outcome = "ValueError" ->
                 /\ pc' = "aborted"
                 /\ exc' = "ValueError"
                 /\ UNCHANGED rows
    /\ UNCHANGED <<outdirMade, metrics, csv, plt, charts>>

ReadLine == \E line \in InputLines : ParseLine(line)

\* Mutation of CheckRows: the empty-result check left out.
CheckRows_Unchecked ==
    /\ pc = "parse"
    /\ pc' = "compute"
    /\ UNCHANGED <<rows, outdirMade, metrics, csv, plt, charts, exc>>

\* End of the file, then: if not rows: raise SystemExit(...)
CheckRows ==
    /\ pc = "parse"
    /\ IF Len(rows) = 0
       THEN pc' = "aborted" /\ exc' = "SystemExit"
       ELSE pc' = "compute" /\ UNCHANGED exc
    /\ UNCHANGED <<rows, outdirMade, metrics, csv, plt, charts>>

\* metrics = compute_metrics(rows)
ComputeMetrics ==
    /\ pc = "compute"
    /\ LET res == compute_metrics(rows)
       IN IF res.raised # ""
          THEN pc' = "aborted" /\ exc' = res.raised /\ UNCHANGED metrics
          ELSE pc' = "write_csv" /\ metrics' = res.out /\ UNCHANGED exc
    /\ UNCHANGED <<rows, outdirMade, csv, plt, charts>>

\* with open(csv_path, "w") ...: writeheader, one writerow per metric
WriteCsv ==
    /\ pc = "write_csv"
    /\ csv' = [opened |-> TRUE, header |-> CsvHeader, body |-> metrics]
    /\ pc' = "plot"
    /\ UNCHANGED <<rows, outdirMade, metrics, plt, charts, exc>>

\* try_plot(metrics, args.outdir): matplotlib may or may not import.
TryPlot ==
    /\ pc = "plot"
    /\ \E available \in BOOLEAN :
         /\ plt' = IF available THEN "imported" ELSE "missing"
         /\ charts' = IF available THEN try_plot(metrics) ELSE <<>>
    /\ pc' = "done"
    /\ UNCHANGED <<rows, outdirMade, metrics, csv, exc>>

Next == MakeDirs \/ ReadLine \/ CheckRows \/ ComputeMetrics \/ WriteCsv \/ TryPlot

Spec == Init /\ [][Next]_vars

---------------------------------------------------------------------------
(* Properties.                                                             *)

Computed == pc \in {"write_csv", "plot", "done"}

RowIdx == 1..Len(rows)
MetIdx == 1..Len(metrics)
StrongIdx == {i \in MetIdx : metrics[i].mode = "strong"}
WeakIdx == {i \in MetIdx : metrics[i].mode = "weak"}

Sizes == {<<rows[i].n_bats, rows[i].iters>> : i \in RowIdx}
SeqRowsOf(s) ==
    {i \in RowIdx : rows[i].version = "sequential"
                    /\ rows[i].n_bats = s[1] /\ rows[i].iters = s[2]}
RowsOfSize(s) == SelectSeq(rows, LAMBDA r : r.n_bats = s[1] /\ r.iters = s[2])
StrongOfSize(s) ==
    SelectSeq(metrics, LAMBDA m : m.mode = "strong" /\ m.n_bats = s[1] /\ m.iters = s[2])

\* a <= b on fractions
FLeq(a, b) == a[1] * b[2] <= b[1] * a[2]
\* q = a / b on fractions, b # 0
IsQuotient(q, a, b) == q[1] * a[2] * b[1] = a[1] * b[2] * q[2]

\* C1: every size (problemSize, iterationCount) that holds a sequential
\* record gets exactly one strong metric per record of the size, in record
\* order, each with baselineSeconds the least elapsedSeconds of the size's
\* sequential records and baselineProblemSize its own problemSize.
C1_StrongOnePerRecordMinBaseline ==
    Computed =>
      \A s \in Sizes :
        SeqRowsOf(s) # {} =>
          LET rs == RowsOfSize(s)
              ms == StrongOfSize(s)
          IN /\ Len(ms) = Len(rs)
             /\ \A k \in 1..Len(ms) :
                  /\ ms[k].version = rs[k].version
                  /\ ms[k].procs = rs[k].procs
                  /\ ms[k].threads = rs[k].threads
                  /\ ms[k].time_s = rs[k].time_s
                  /\ ms[k].baseline_n_bats = ms[k].n_bats
                  /\ \E i \in SeqRowsOf(s) : rows[i].time_s = ms[k].T_base_s
                  /\ \A i \in SeqRowsOf(s) : FLeq(ms[k].T_base_s, rows[i].time_s)

\* A size with two sequential runs, the later one faster, and a parallel run.
C1_Witness ==
    /\ Computed
    /\ \E i, j, k \in RowIdx :
         /\ i < j
         /\ rows[i].version = "sequential" /\ rows[j].version = "sequential"
         /\ rows[k].version = "openmp"
         /\ <<rows[i].n_bats, rows[i].iters>> = <<rows[j].n_bats, rows[j].iters>>
         /\ <<rows[i].n_bats, rows[i].iters>> = <<rows[k].n_bats, rows[k].iters>>
         /\ FLess(rows[j].time_s, rows[i].time_s)
    /\ \E m \in StrongIdx : metrics[m].version = "openmp"

\* The rule of speedup: 0 at zero elapsed time, else baseline / elapsed.
SpeedupRule(m) ==
    IF m.time_s = FZero THEN m.speedup = FZero
    ELSE IsQuotient(m.speedup, m.T_base_s, m.time_s)

NonSeqVersions == {rows[i].version : i \in RowIdx} \ {"sequential"}
ItersSet == {rows[i].iters : i \in RowIdx}

\* The baseline records the weak pass resolves, one per (iters, version).
ResolvedBaselines ==
    {weak_baseline(rows, it, v).row :
        <<it, v>> \in {q \in ItersSet \X NonSeqVersions : weak_baseline(rows, q[1], q[2]).found}}

RowKey(r) == <<r.version, r.n_bats, r.iters, r.procs, r.threads>>
MetricRowKey(m) == <<m.version, m.n_bats, m.iters, m.procs, m.threads>>

\* A weak metric standing at the key of a resolved baseline record.
IsBaselineEntry(m) ==
    m.mode = "weak" /\ \E b \in ResolvedBaselines : MetricRowKey(m) = RowKey(b)

\* C2 as stated: every metric, the weak pass's baseline entry included, has
\* speedup 0 at zero elapsedSeconds and baselineSeconds / elapsedSeconds
\* otherwise.
C2_SpeedupRuleEveryMetric ==
    Computed => \A i \in MetIdx : SpeedupRule(metrics[i])

\* C2 amended: the rule holds of every metric but the weak pass's baseline
\* entry, whose speedup is 1 whatever its elapsedSeconds.
C2_SpeedupRuleButBaselineEntry ==
    Computed =>
      \A i \in MetIdx :
        IF IsBaselineEntry(metrics[i]) THEN metrics[i].speedup = FOne
        ELSE SpeedupRule(metrics[i])

\* A zero-time record measured against a resolved baseline, next to a
\* baseline entry and a record of positive time.
C2_Witness ==
    /\ Computed
    /\ \E i \in MetIdx : ~IsBaselineEntry(metrics[i]) /\ metrics[i].time_s = FZero
                         /\ FPos(metrics[i].T_base_s)
    /\ \E i \in MetIdx : ~IsBaselineEntry(metrics[i]) /\ FPos(metrics[i].time_s)
                         /\ metrics[i].speedup # FOne /\ metrics[i].mode = "weak"
    /\ \E i \in MetIdx : IsBaselineEntry(metrics[i])

WeakOfPair(it, v) == {i \in WeakIdx : metrics[i].version = v /\ metrics[i].iters = it}
RowsOfPair(it, v) == {i \in RowIdx : rows[i].version = v /\ rows[i].iters = it}

\* C3: for every (iterationCount, non-sequential variant) whose weak
\* baseline resolves, the weak metrics carrying that variant and
\* iterationCount are as many as the input records carrying them.
C3_WeakOnePerRecord ==
    Computed =>
      \A it \in ItersSet, v \in NonSeqVersions :
        weak_baseline(rows, it, v).found =>
          Cardinality(WeakOfPair(it, v)) = Cardinality(RowsOfPair(it, v))

LeastNBats(S) == {i \in S : \A j \in S : rows[i].n_bats <= rows[j].n_bats}

\* Every weak metric of the pair, and the entry at the baseline's own key,
\* carry the problemSize and elapsedSeconds of the record rows[b].
CarriesBaseline(it, v, b) ==
    /\ \A i \in WeakOfPair(it, v) :
         /\ metrics[i].baseline_n_bats = rows[b].n_bats
         /\ metrics[i].T_base_s = rows[b].time_s
    /\ \E i \in WeakIdx :
         /\ MetricRowKey(metrics[i]) = RowKey(rows[b])
         /\ metrics[i].baseline_n_bats = rows[b].n_bats
         /\ metrics[i].T_base_s = rows[b].time_s

\* C4: the weak baseline of a pair (iterationCount, non-sequential variant)
\* is a sequential record of that iterationCount of least problemSize if one
\* exists, else a record of the variant with parallelism 1 of least
\* problemSize if one exists, else the pair gets no weak metric; every weak
\* metric of the pair carries the baseline's problemSize and elapsedSeconds.
C4_WeakBaselineTwoTier ==
    Computed =>
      \A it \in ItersSet, v \in NonSeqVersions :
        LET seqs == {i \in RowIdx : rows[i].iters = it /\ rows[i].version = "sequential"}
            sames == {i \in RowIdx :
                        /\ rows[i].iters = it /\ rows[i].version = v
                        /\ (CASE v = "openmp" -> rows[i].threads
                              [] v = "mpi" -> rows[i].procs
                              [] OTHER -> 1) = 1}
        IN IF seqs # {} THEN \E b \in LeastNBats(seqs) : CarriesBaseline(it, v, b)
           ELSE IF sames # {} THEN \E b \in LeastNBats(sames) : CarriesBaseline(it, v, b)
           ELSE WeakOfPair(it, v) = {}

\* A pair whose baseline is the smaller of two sequential records read
\* larger first, a pair resolved by the fallback, and a pair left out.
C4_Witness ==
    /\ Computed
    /\ \E i, j \in RowIdx :
         /\ i < j
         /\ rows[i].version = "sequential" /\ rows[j].version = "sequential"
         /\ rows[i].iters = rows[j].iters
         /\ rows[j].n_bats < rows[i].n_bats
         /\ \E k \in RowIdx : rows[k].version = "openmp" /\ rows[k].iters = rows[i].iters
    /\ WeakIdx # {}

\* The fallback tier: no sequential record, the baseline is the variant's own
\* parallelism-1 record of least problemSize, read after a larger one.
C4_FallbackReached ==
    /\ Computed
    /\ \A i \in RowIdx : rows[i].version = "openmp"
    /\ \E i, j \in RowIdx : i < j /\ rows[i].threads = 1 /\ rows[j].threads = 1
                            /\ rows[j].n_bats < rows[i].n_bats
    /\ \E i \in WeakIdx : metrics[i].threads = 2

\* The skipped tier: a pair with records and no baseline.
C4_SkippedReached ==
    /\ Computed
    /\ \E it \in ItersSet, v \in NonSeqVersions :
         RowsOfPair(it, v) # {} /\ ~weak_baseline(rows, it, v).found

C5_FallbackZeroReached ==
    /\ Computed
    /\ \E b \in ResolvedBaselines : b.version = "openmp" /\ b.time_s = FZero

\* C6: a size without a sequential record gets no strong metric, every
\* size with one keeps its strong metrics, and the run is not aborted: the
\* only SystemExit that ends a run is the one of an empty record list.
C6_MissingStrongBaselineDropped ==
    /\ (pc = "aborted" /\ exc = "SystemExit") => Len(rows) = 0
    /\ Computed =>
         \A s \in Sizes :
           IF SeqRowsOf(s) = {} THEN Len(StrongOfSize(s)) = 0
           ELSE Len(StrongOfSize(s)) = Len(RowsOfSize(s))

\* A run past compute_metrics with one size lacking a sequential record and
\* another size holding one.
C6_Witness ==
    /\ Computed
    /\ \E s, t \in Sizes : /\ SeqRowsOf(s) = {} /\ SeqRowsOf(t) # {}
                           /\ Len(StrongOfSize(t)) > 0
                           /\ Len(RowsOfSize(s)) > 0

\* C7: once reading has ended with no record parsed, the run is aborted
\* with an exception, bench_metrics.csv was never opened and the chart sink
\* never ran.
C7_EmptyInputAbortsWithoutOutput ==
    (Len(rows) = 0 /\ pc \notin {"makedirs", "parse"}) =>
      /\ pc = "aborted"
      /\ exc # ""
      /\ csv = NoCsv
      /\ plt = "unprobed"
      /\ charts = <<>>

\* The end of an input that yielded no record: the SystemExit of main.
C7_Witness ==
    /\ pc = "aborted" /\ exc = "SystemExit" /\ Len(rows) = 0
    /\ outdirMade /\ ~csv.opened

\* C8: parse_lines never fails on an input line: no run ends in the
\* ValueError of a line that matched the grammar.
C8_ParseNeverFails == exc # "ValueError"

ExpectedP(m) ==
    CASE m.version = "openmp" -> m.threads
      [] m.version = "mpi" -> m.procs
      [] OTHER -> 1

\* C9: parallelism is threadCount for openmp, processCount for mpi and 1
\* otherwise; a strong metric has efficiency = speedup / parallelism when
\* parallelism > 0 and 0 otherwise; a weak metric has efficiency = speedup.
C9_EfficiencyByMode ==
    Computed =>
      \A i \in MetIdx :
        LET m == metrics[i]
        IN /\ m.p = ExpectedP(m)
           /\ m.mode = "strong" =>
                IF m.p > 0
                THEN m.efficiency[1] * m.speedup[2] * m.p = m.speedup[1] * m.efficiency[2]
                ELSE m.efficiency = FZero
           /\ m.mode = "weak" => m.efficiency = m.speedup

\* Strong metrics of parallelism 0, 1 by default and 2, and a weak metric
\* of parallelism 2, all of non-zero speedup.
C9_Witness ==
    /\ Computed
    /\ \E i \in StrongIdx : metrics[i].p = 0 /\ FPos(metrics[i].speedup)
    /\ \E i \in StrongIdx : metrics[i].version = "mpi" /\ metrics[i].threads = 2
                            /\ metrics[i].p = 1
    /\ \E i \in WeakIdx : FPos(metrics[i].speedup)

\* An mpi record of two processes and a record of an unknown variant.
C9_OtherVariantsReached ==
    /\ Computed
    /\ \E i \in StrongIdx : metrics[i].version = "hybrid" /\ metrics[i].procs = 2
    /\ \E i \in WeakIdx : metrics[i].version = "mpi" /\ metrics[i].p = 2
                          /\ FPos(metrics[i].efficiency)

ChartIdx == 1..Len(charts)

\* C10: the chart sink groups by (mode, variant, problemSize,
\* iterationCount), renders no sequential group, and every weak group it
\* renders holds the baseline's unit-speedup metric as a parallelism-1 point.
C10_WeakChartsHoldAnchor ==
    (pc = "done" /\ plt = "imported") =>
      \A c \in ChartIdx :
        LET g == charts[c]
        IN /\ g.version # "sequential"
           /\ \A k \in 1..Len(g.ms) :
                GroupKey(g.ms[k]) = <<g.mode, g.version, g.n_bats, g.iters>>
           /\ g.mode = "weak" =>
                \E k \in 1..Len(g.ms) :
                  /\ IsBaselineEntry(g.ms[k])
                  /\ g.ms[k].p = 1
                  /\ g.ms[k].speedup = FOne

\* The part of C10 that the chart sink does keep: grouping by the four
\* fields, every metric of a rendered group drawn, no sequential group.
C10_GroupingAndNoSequential ==
    (pc = "done" /\ plt = "imported") =>
      /\ \A c \in ChartIdx :
           /\ charts[c].version # "sequential"
           /\ \A k \in 1..Len(charts[c].ms) :
                GroupKey(charts[c].ms[k])
                  = <<charts[c].mode, charts[c].version, charts[c].n_bats, charts[c].iters>>
      /\ \A i \in MetIdx :
           metrics[i].version # "sequential" =>
             \E c \in ChartIdx : \E k \in 1..Len(charts[c].ms) : charts[c].ms[k] = metrics[i]

====
